---- MODULE Spec2Model ----
(***************************************************************************)
(* ModelService (services/model_service.py): a detector-backed helmet      *)
(* predictor with a deterministic, hash-based stub fallback.               *)
(*                                                                         *)
(* Representation.  A Python str is a sequence of one-character strings,   *)
(* so that lower(), substring search and str(int) are computed.  A         *)
(* confidence returned in a Verdict is an integer number of thousandths    *)
(* (0.852 is 852); a detector confidence is an integer number of           *)
(* sixteenths, which a binary float holds exactly, so that the mean and    *)
(* Python's round(x, 3) (round-half-to-even on the exact value) are        *)
(* computed exactly.  Python's None is the record [kind |-> "None"].       *)
(***************************************************************************)
EXTENDS Integers, Sequences, FiniteSets, TLC

VARIABLES
    weights_path,   \* self.weights_path
    device,         \* self.device
    rng_seed,       \* state of the global random module after random.seed(seed)
    model,          \* self.model
    class_names,    \* self.class_names
    load_env,       \* what the environment did to the last _load_model
    init_raised,    \* whether the last __init__ raised to its caller
    call,           \* the last call and what it returned
    first_stub,     \* the first call _predict_stub answered, and in what service
    prev_failed     \* the previous predict on this service failed at inference

vars == <<weights_path, device, rng_seed, model, class_names, load_env,
          init_raised, call, first_stub, prev_failed>>

----------------------------------------------------------------------------
(* Python values *)

None == [kind |-> "None"]

str_person == <<"p", "e", "r", "s", "o", "n">>
str_head == <<"h", "e", "a", "d">>
str_helmet == <<"h", "e", "l", "m", "e", "t">>
str_no_helmet == <<"n", "o", "_", "h", "e", "l", "m", "e", "t">>
str_uncertain == <<"u", "n", "c", "e", "r", "t", "a", "i", "n">>

UpperToLower ==
    [A |-> "a", B |-> "b", C |-> "c", D |-> "d", E |-> "e", F |-> "f", G |-> "g",
     H |-> "h", I |-> "i", J |-> "j", K |-> "k", L |-> "l", M |-> "m", N |-> "n",
     O |-> "o", P |-> "p", Q |-> "q", R |-> "r", S |-> "s", T |-> "t", U |-> "u",
     V |-> "v", W |-> "w", X |-> "x", Y |-> "y", Z |-> "z"]

\* str.lower()
lower(s) ==
    [i \in 1..Len(s) |-> IF s[i] \in DOMAIN UpperToLower THEN UpperToLower[s[i]] ELSE s[i]]

\* sub in s
contains(s, sub) ==
    \E i \in 1..(Len(s) - Len(sub) + 1) : SubSeq(s, i, i + Len(sub) - 1) = sub

Digits == <<"0", "1", "2", "3", "4", "5", "6", "7", "8", "9">>

RECURSIVE str_nat(_)
str_nat(n) ==
    IF n < 10 THEN <<Digits[n + 1]>> ELSE str_nat(n \div 10) \o <<Digits[(n % 10) + 1]>>

\* str(int(c))
str_int(i) == IF i < 0 THEN <<"-">> \o str_nat(-i) ELSE str_nat(i)

\* round(num / den, 3), in thousandths: round-half-to-even
round3(num, den) ==
    LET q == (1000 * num) \div den
        r == (1000 * num) % den
    IN  IF 2 * r > den THEN q + 1
        ELSE IF 2 * r < den THEN q
        ELSE IF q % 2 = 0 THEN q ELSE q + 1

----------------------------------------------------------------------------
(* _predict_stub *)

UInt16Max == 65535

\* The inputs of the model: b"", three short non-image byte strings and one
\* image (a 1x1 binary PPM).
EmptyBytes == <<>>
JunkA == <<0, 55, 113>>
JunkB == <<228, 252>>
JunkC == <<2, 15>>
PpmImage == <<80, 54, 10, 49, 32, 49, 10, 50, 53, 53, 10, 0, 0, 0>>

Inputs == {EmptyBytes, JunkA, JunkB, JunkC, PpmImage}

\* hashlib.sha1(image_bytes).digest()[:2], the digests of Inputs
sha1_digest2(image_bytes) ==
    CASE image_bytes = EmptyBytes -> <<218, 57>>
      [] image_bytes = JunkA -> <<76, 204>>
      [] image_bytes = JunkB -> <<76, 205>>
      [] image_bytes = JunkC -> <<179, 51>>
      [] image_bytes = PpmImage -> <<197, 111>>

\* int.from_bytes(digest[:2], "big"); from_bytes_little is the variant with
\* byteorder "little"
from_bytes_little(d) == d[2] * 256 + d[1]
from_bytes_big(d) == d[1] * 256 + d[2]

\* the thresholds and the rounding of _predict_stub, on n = score * 65535
stub_verdict(n) ==
    IF 10 * n > 7 * UInt16Max
    THEN [label |-> str_helmet, confidence |-> round3(n, UInt16Max)]
    ELSE IF 10 * n < 3 * UInt16Max
    THEN [label |-> str_no_helmet, confidence |-> round3(UInt16Max - n, UInt16Max)]
    ELSE [label |-> str_uncertain, confidence |-> 500]

stub_from_digest(d) == stub_verdict(from_bytes_big(d))

\* _predict_stub; _predict_stub_seeded is the variant that draws on the seeded
\* random module
_predict_stub_seeded(image_bytes) ==
    stub_verdict((from_bytes_big(sha1_digest2(image_bytes)) + rng_seed * 1000) % (UInt16Max + 1))
_predict_stub(image_bytes) == stub_from_digest(sha1_digest2(image_bytes))

----------------------------------------------------------------------------
(* The detector's name table and output *)

Absent == [kind |-> "absent"]          \* getattr finds no such attribute
EmptyList == [kind |-> "list", items |-> <<>>]

\* a list of names, as the detector library of old versions gives it
TableA ==
    [kind |-> "list",
     items |-> << str_person, <<"H", "e", "l", "m", "e", "t">>, <<"c", "a", "r">> >>]

\* a dict of names with a missing key (3)
TableB ==
    [kind |-> "dict",
     items |-> (0 :> <<"H", "E", "A", "D">>) @@ (1 :> str_no_helmet)
               @@ (2 :> <<"w", "i", "t", "h", "o", "u", "t", "-", "h", "e", "l", "m", "e", "t">>)
               @@ (4 :> <<"d", "o", "g">>)]

EmptyDict == [kind |-> "dict", items |-> <<>>]

\* len(names)
py_len(names) ==
    IF names.kind = "list" THEN Len(names.items) ELSE Cardinality(DOMAIN names.items)

\* names[i]: a list takes a negative index from its end and raises IndexError
\* outside -len..len-1; a dict raises KeyError on a key it does not hold
py_getitem(names, i) ==
    IF names.kind = "list"
    THEN LET n == Len(names.items)
         IN  IF 0 <= i /\ i < n THEN [ok |-> TRUE, val |-> names.items[i + 1]]
             ELSE IF -n <= i /\ i < 0 THEN [ok |-> TRUE, val |-> names.items[n + i + 1]]
             ELSE [ok |-> FALSE, val |-> <<"I", "n", "d", "e", "x", "E", "r", "r", "o", "r">>]
    ELSE IF i \in DOMAIN names.items THEN [ok |-> TRUE, val |-> names.items[i]]
         ELSE [ok |-> FALSE, val |-> <<"K", "e", "y", "E", "r", "r", "o", "r">>]

\* getattr(results, "names", self.class_names) or self.class_names
names_of(results, self_class_names) ==
    LET got == IF results.names.kind = "absent" THEN self_class_names ELSE results.names
    IN  IF py_len(got) > 0 THEN got ELSE self_class_names

\* names[int(c)] if int(c) < len(names) else str(int(c))
class_raw(names, c) ==
    IF c < py_len(names) THEN py_getitem(names, c) ELSE [ok |-> TRUE, val |-> str_int(c)]

\* the loop body that appends to classes; normalize_case_sensitive is the
\* variant without lower()
normalize_case_sensitive(c) ==
    IF c \in {str_head, str_person} THEN str_person
    ELSE IF contains(c, str_helmet) THEN str_helmet
    ELSE c
normalize(c) ==
    LET c_lower == lower(c)
    IN  IF c_lower \in {str_head, str_person} THEN str_person
        ELSE IF contains(c_lower, str_helmet) THEN str_helmet
        ELSE c_lower

\* list.count(x)
count(classes, x) == Cardinality({i \in 1..Len(classes) : classes[i] = x})

max(a, b) == IF a >= b THEN a ELSE b

\* violation_count and label; decide_label_helmet_first is the variant that
\* looks at the helmets before the persons
decide_label_helmet_first(person_count, helmet_count) ==
    IF helmet_count > 0 /\ helmet_count >= person_count THEN str_helmet
    ELSE IF person_count > 0 THEN str_no_helmet
    ELSE str_uncertain
decide_label(person_count, helmet_count) ==
    LET violation_count == max(person_count - helmet_count, 0)
    IN  IF person_count > 0
        THEN IF violation_count > 0 THEN str_no_helmet ELSE str_helmet
        ELSE str_uncertain

RECURSIVE sum(_)
sum(xs) == IF xs = <<>> THEN 0 ELSE Head(xs) + sum(Tail(xs))

\* a detector confidence k stands for the float k / ConfDen
ConfDen == 16

\* round(float(sum(conf_scores) / len(conf_scores)) if conf_scores else 0.5, 3);
\* mean_confidence_truncated is the variant that truncates
mean_confidence_truncated(conf_scores) ==
    IF Len(conf_scores) > 0
    THEN (1000 * sum(conf_scores)) \div (ConfDen * Len(conf_scores))
    ELSE 500
mean_confidence(conf_scores) ==
    IF Len(conf_scores) > 0
    THEN round3(sum(conf_scores), ConfDen * Len(conf_scores))
    ELSE 500

\* Image.open(io.BytesIO(image_bytes)).convert("RGB") succeeds
image_open(image_bytes) == image_bytes = PpmImage

Failed(at, n) ==
    [ok |-> FALSE, at |-> at, invoked |-> n, result |-> None,
     classes_raw |-> <<>>, person_count |-> 0, helmet_count |-> 0]

\* the try block of _predict_with_yolo; yolo_out is what self.model(frame, ...)
\* does when it is called
yolo_try(self_class_names, image_bytes, yolo_out) ==
    IF ~image_open(image_bytes) THEN Failed("decode", 0)
    ELSE IF yolo_out.kind = "raise" THEN Failed("inference", 1)
    ELSE IF yolo_out.kind = "no_results" THEN Failed("output", 1)
    ELSE
      LET results == yolo_out
          names == names_of(results, self_class_names)
      IN  IF results.boxes.kind = "None" THEN Failed("output", 1)
          ELSE
            LET cls == results.boxes.cls
                looked == [i \in 1..Len(cls) |-> class_raw(names, cls[i])]
            IN  IF \E i \in 1..Len(cls) : ~looked[i].ok THEN Failed("output", 1)
                ELSE
                  LET classes_raw == [i \in 1..Len(cls) |-> looked[i].val]
                      classes == [i \in 1..Len(cls) |-> normalize(classes_raw[i])]
                      person_count == count(classes, str_person)
                      helmet_count == count(classes, str_helmet)
                      label == decide_label(person_count, helmet_count)
                      conf_scores == results.boxes.conf
                  IN  [ok |-> TRUE, at |-> "none", invoked |-> 1,
                       result |-> [label |-> label,
                                   confidence |-> mean_confidence(conf_scores)],
                       classes_raw |-> classes_raw, person_count |-> person_count,
                       helmet_count |-> helmet_count]

\* what a call returns, with what it computed on the way
Returned(result, raised, path, t) ==
    [result |-> result, raised |-> raised, path |-> path, failed_at |-> t.at,
     invoked |-> t.invoked, classes_raw |-> t.classes_raw,
     person_count |-> t.person_count, helmet_count |-> t.helmet_count]

\* _predict_with_yolo; the variants: without the except clause, and with a
\* fallback that no longer holds the original bytes
_predict_with_yolo_unguarded(self_class_names, image_bytes, yolo_out) ==
    LET t == yolo_try(self_class_names, image_bytes, yolo_out)
    IN  Returned(t.result, ~t.ok, "yolo", t)
_predict_with_yolo_stale_bytes(self_class_names, image_bytes, yolo_out) ==
    LET t == yolo_try(self_class_names, image_bytes, yolo_out)
    IN  IF t.ok THEN Returned(t.result, FALSE, "yolo", t)
        ELSE Returned(_predict_stub(EmptyBytes), FALSE, "fallback", t)
_predict_with_yolo(self_class_names, image_bytes, yolo_out) ==
    LET t == yolo_try(self_class_names, image_bytes, yolo_out)
    IN  IF t.ok THEN Returned(t.result, FALSE, "yolo", t)
        ELSE Returned(_predict_stub(image_bytes), FALSE, "fallback", t)

predict(self_model, self_class_names, image_bytes, yolo_out) ==
    IF self_model.kind # "None"
    THEN _predict_with_yolo(self_class_names, image_bytes, yolo_out)
    ELSE Returned(_predict_stub(image_bytes), FALSE, "stub", Failed("none", 0))

----------------------------------------------------------------------------
(* __init__ and _load_model *)

Path(p) == [kind |-> "Path", path |-> p]

CtorArgs ==
    {[weights_path |-> None, seed |-> 42, device |-> "cpu"],
     [weights_path |-> Path("best.pt"), seed |-> 7, device |-> "cuda"]}

\* YOLO(str(self.weights_path)) or YOLO(): the loaded detector
YOLO(self_weights_path, names) ==
    [kind |-> "YOLO", weights |-> self_weights_path, names |-> names]

\* What the environment does to a load.  outcome: "ok"; "import_error", the
\* import of the library raises ImportError; "yolo_error", the YOLO constructor
\* raises (missing or corrupt weights, incompatible runtime); "names_error" and
\* "names_import_error", the constructor returns and reading the detector's
\* names raises, an Exception or an ImportError (a backend that is not
\* installed).  torch_ok: the patching of torch.load goes through.  names: the
\* names attribute of the loaded detector.
LoadOutcomes == {"ok", "import_error", "yolo_error", "names_error", "names_import_error"}

LoadEnvs ==
    {[outcome |-> o, torch_ok |-> t, names |-> Absent] :
        o \in LoadOutcomes \ {"ok"}, t \in BOOLEAN}
    \cup {[outcome |-> "ok", torch_ok |-> t, names |-> n] :
        t \in BOOLEAN, n \in {TableA, TableB, Absent}}

\* _load_model, from self.model = None and self.class_names = []: the fields
\* it leaves and whether it raised
_load_model(self_weights_path, env) ==
    CASE env.outcome = "import_error" ->
           [model |-> None, class_names |-> EmptyList, raised |-> FALSE]
      [] env.outcome = "yolo_error" ->
           [model |-> None, class_names |-> EmptyList, raised |-> FALSE]
      [] env.outcome = "names_error" ->
           [model |-> None, class_names |-> EmptyList, raised |-> FALSE]
      [] env.outcome = "names_import_error" ->
           [model |-> YOLO(self_weights_path, Absent), class_names |-> EmptyList,
            raised |-> FALSE]
      [] env.outcome = "ok" ->
           [model |-> YOLO(self_weights_path, env.names),
            class_names |-> IF env.names.kind = "absent" THEN EmptyList ELSE env.names,
            raised |-> FALSE]

NoCall == [kind |-> "none"]
NotInvoked == [kind |-> "not_invoked"]

\* __init__: the service it leaves
Constructed(args, env) ==
    LET loaded == _load_model(args.weights_path, env)
    IN  [weights_path |-> args.weights_path, device |-> args.device,
         rng_seed |-> args.seed, model |-> loaded.model,
         class_names |-> loaded.class_names, init_raised |-> loaded.raised]

\* ModelService(weights_path, seed, device): a new service replaces the old one
Construct(args, env) ==
    LET new == Constructed(args, env)
    IN  /\ weights_path' = new.weights_path
        /\ device' = new.device
        /\ rng_seed' = new.rng_seed
        /\ model' = new.model
        /\ class_names' = new.class_names
        /\ init_raised' = new.init_raised
        /\ load_env' = env.outcome
        /\ call' = NoCall
        /\ prev_failed' = FALSE
        /\ UNCHANGED first_stub

----------------------------------------------------------------------------
(* What the detector does when it is called *)

Raise == [kind |-> "raise"]                \* self.model(frame) raises
NoResults == [kind |-> "no_results"]       \* it returns an empty list
Results(names, boxes) == [kind |-> "results", names |-> names, boxes |-> boxes]
Boxes(cls, conf) == [kind |-> "Boxes", cls |-> cls, conf |-> conf]

\* the detector outputs of the service's life
LifeOutputs ==
    {Raise, NoResults, Results(Absent, None),
     Results(Absent, Boxes(<<>>, <<>>)),
     Results(Absent, Boxes(<<0>>, <<16>>)),
     Results(Absent, Boxes(<<0, 1>>, <<14, 13>>)),
     Results(Absent, Boxes(<<2>>, <<3>>)),
     Results(TableB, Boxes(<<0, 3>>, <<8, 8>>))}

\* whether predict gets as far as calling the detector
Invokes(self_model, image_bytes) == self_model.kind # "None" /\ image_open(image_bytes)

----------------------------------------------------------------------------
(* predict *)

\* one call of predict on the service; Predict_drops_model is the variant that
\* gives the handle up after a failure
Predict_drops_model(image_bytes, yolo_out) ==
    LET out == predict(model, class_names, image_bytes, yolo_out)
    IN  /\ ~init_raised
        /\ call' = [kind |-> "predict", image_bytes |-> image_bytes,
                    yolo_out |-> yolo_out, out |-> out]
        /\ first_stub' =
             IF out.path \in {"stub", "fallback"} /\ first_stub.kind = "None"
             THEN [kind |-> "stub", image_bytes |-> image_bytes, result |-> out.result,
                   rng_seed |-> rng_seed, had_model |-> model.kind # "None"]
             ELSE first_stub
        /\ prev_failed' = (call.kind = "predict" /\ call.out.failed_at = "inference")
        /\ model' = IF out.failed_at # "none" THEN None ELSE model
        /\ UNCHANGED <<weights_path, device, rng_seed, class_names, load_env,
                       init_raised>>
Predict(image_bytes, yolo_out) ==
    LET out == predict(model, class_names, image_bytes, yolo_out)
    IN  /\ ~init_raised
        /\ call' = [kind |-> "predict", image_bytes |-> image_bytes,
                    yolo_out |-> yolo_out, out |-> out]
        /\ first_stub' =
             IF out.path \in {"stub", "fallback"} /\ first_stub.kind = "None"
             THEN [kind |-> "stub", image_bytes |-> image_bytes, result |-> out.result,
                   rng_seed |-> rng_seed, had_model |-> model.kind # "None"]
             ELSE first_stub
        /\ prev_failed' = (call.kind = "predict" /\ call.out.failed_at = "inference")
        /\ UNCHANGED <<weights_path, device, rng_seed, model, class_names, load_env,
                       init_raised>>

----------------------------------------------------------------------------
(* The life of a service: construction, then any calls of predict *)

Init ==
    \E args \in CtorArgs, env \in LoadEnvs :
        LET new == Constructed(args, env)
        IN  /\ weights_path = new.weights_path
            /\ device = new.device
            /\ rng_seed = new.rng_seed
            /\ model = new.model
            /\ class_names = new.class_names
            /\ init_raised = new.init_raised
            /\ load_env = env.outcome
            /\ call = NoCall
            /\ prev_failed = FALSE
            /\ first_stub = None

DoConstruct == \E args \in CtorArgs, env \in LoadEnvs : Construct(args, env)

DoPredict ==
    \E image_bytes \in Inputs :
        \E yolo_out \in IF Invokes(model, image_bytes) THEN LifeOutputs ELSE {NotInvoked} :
            Predict(image_bytes, yolo_out)

Next == DoConstruct \/ DoPredict

Spec == Init /\ [][Next]_vars

----------------------------------------------------------------------------
(* The aggregation of one detector output: a constructed service with a    *)
(* detector, an image, and every detector output up to MaxDet detections   *)

MaxDet == 3

ClsIdx == -1..4
Confs == {1, 3, ConfDen}

SeqsUpTo(S, n) == UNION {[1..k -> S] : k \in 0..n}

AggBoxes ==
    {Boxes([i \in 1..Len(d) |-> d[i][1]], [i \in 1..Len(d) |-> d[i][2]]) :
        d \in SeqsUpTo(ClsIdx \X Confs, MaxDet)}

AggOutputs == {Results(n, b) : n \in {Absent, TableB, EmptyDict}, b \in AggBoxes}

AggEnvs == {[outcome |-> "ok", torch_ok |-> TRUE, names |-> n] : n \in {TableA, Absent}}

InitAgg ==
    \E args \in CtorArgs, env \in AggEnvs, yolo_out \in AggOutputs :
        LET new == Constructed(args, env)
        IN  /\ args.weights_path = None
            /\ weights_path = new.weights_path
            /\ device = new.device
            /\ rng_seed = new.rng_seed
            /\ model = new.model
            /\ class_names = new.class_names
            /\ init_raised = new.init_raised
            /\ load_env = env.outcome
            /\ call = [kind |-> "pending", image_bytes |-> PpmImage, yolo_out |-> yolo_out]
            /\ prev_failed = FALSE
            /\ first_stub = None

NextAgg == call.kind = "pending" /\ Predict(call.image_bytes, call.yolo_out)

SpecAgg == InitAgg /\ [][NextAgg]_vars

----------------------------------------------------------------------------
(* _predict_stub on every digest: the first two digest bytes range over    *)
(* all 65536 values                                                        *)

StubStep ==
    /\ call.kind = "digest"
    /\ call' = [kind |-> "stub", digest |-> call.digest,
                result |-> stub_from_digest(call.digest)]
    /\ UNCHANGED <<weights_path, device, rng_seed, model, class_names, load_env,
                   init_raised, first_stub, prev_failed>>

InitStub ==
    \E args \in CtorArgs, hi \in 0..255, lo \in 0..255 :
        LET new == Constructed(args, [outcome |-> "import_error", torch_ok |-> TRUE,
                                      names |-> Absent])
        IN  /\ args.weights_path = None
            /\ weights_path = new.weights_path
            /\ device = new.device
            /\ rng_seed = new.rng_seed
            /\ model = new.model
            /\ class_names = new.class_names
            /\ init_raised = new.init_raised
            /\ load_env = "import_error"
            /\ call = [kind |-> "digest", digest |-> <<hi, lo>>]
            /\ prev_failed = FALSE
            /\ first_stub = None

NextStub == StubStep

SpecStub == InitStub /\ [][NextStub]_vars

----------------------------------------------------------------------------
(* Properties *)

Labels == {str_helmet, str_no_helmet, str_uncertain}

Predicted == call.kind = "predict"
HasModel == model.kind # "None"

\* the call got a detector output with boxes
Detected == Predicted /\ call.yolo_out.kind = "results" /\ call.yolo_out.boxes.kind = "Boxes"

\* the detections of the call: class indices, confidences, and the name table
\* the class indices are looked up in
DetCls == call.yolo_out.boxes.cls
DetConf == call.yolo_out.boxes.conf
DetNames == names_of(call.yolo_out, class_names)

\* the keys the name table holds
InTable(names, c) ==
    IF names.kind = "list" THEN 0 <= c /\ c < Len(names.items) ELSE c \in DOMAIN names.items

IsPersonLabel(c) == lower(c) \in {str_head, str_person}
IsHelmetLabel(c) == ~IsPersonLabel(c) /\ contains(lower(c), str_helmet)

Abs(x) == IF x < 0 THEN -x ELSE x

\* c thousandths is a nearest thousandth to num / den
Nearest3(c, num, den) == c \in 0..1000 /\ 2 * Abs(1000 * num - c * den) <= den

\* C1: predict raises nothing and returns a Verdict whose label is one of
\* helmet, no_helmet, uncertain and whose confidence is in [0, 1], for every
\* input (empty and non-image bytes too) and every state of the model handle.
PredictTotal ==
    Predicted =>
        /\ ~call.out.raised
        /\ call.out.result.label \in Labels
        /\ call.out.result.confidence \in 0..1000

\* a handle is present, the input is b"" and the decode failed
PredictTotalWitness ==
    /\ Predicted /\ HasModel
    /\ call.image_bytes = EmptyBytes
    /\ call.out.failed_at = "decode"
    /\ ~call.out.raised
    /\ call.out.result.label \in Labels

\* C2: with a handle present, a failure of any step of the model path (decode,
\* detector call, mapping of the output) is not propagated, and predict returns
\* what _predict_stub returns for the same bytes.
FallbackIsStub ==
    (Predicted /\ HasModel /\
        (\/ ~image_open(call.image_bytes)
         \/ call.yolo_out.kind \in {"raise", "no_results"}
         \/ call.yolo_out.boxes.kind = "None"
         \/ \E i \in 1..Len(DetCls) :
                DetCls[i] < py_len(DetNames) /\ ~py_getitem(DetNames, DetCls[i]).ok))
    => /\ ~call.out.raised
       /\ call.out.path = "fallback"
       /\ call.out.result = _predict_stub(call.image_bytes)

\* the mapping of the detector output of an image failed
FallbackIsStubWitness ==
    /\ Predicted /\ HasModel
    /\ call.image_bytes = PpmImage
    /\ call.out.failed_at = "output"
    /\ Detected
    /\ call.out.result = _predict_stub(PpmImage)

\* C3: when the model path succeeds the label is decided by the two counts:
\* uncertain with no person (whatever the helmets), no_helmet with more persons
\* than helmets, helmet otherwise; other categories count for nothing.
LabelByCounts ==
    (Predicted /\ call.out.path = "yolo") =>
        LET raw == call.out.classes_raw
            persons == Cardinality({i \in 1..Len(raw) : IsPersonLabel(raw[i])})
            helmets == Cardinality({i \in 1..Len(raw) : IsHelmetLabel(raw[i])})
        IN  call.out.result.label =
                IF persons = 0 THEN str_uncertain
                ELSE IF persons > helmets THEN str_no_helmet
                ELSE str_helmet

\* helmets and another category, no person: uncertain
LabelByCountsWitness ==
    /\ Predicted /\ call.out.path = "yolo"
    /\ Len(call.out.classes_raw) = 3
    /\ \E i \in 1..3 : IsHelmetLabel(call.out.classes_raw[i])
    /\ \E i \in 1..3 : call.out.classes_raw[i] = <<"c", "a", "r">>
    /\ \A i \in 1..3 : ~IsPersonLabel(call.out.classes_raw[i])
    /\ call.out.result.label = str_uncertain

\* C4: when the model path succeeds the confidence is the mean of the
\* confidences of all the detections, rounded to 3 decimal places; with no
\* detection the Verdict is uncertain with confidence 0.5.
MeanConfidence ==
    (Predicted /\ call.out.path = "yolo") =>
        IF Len(DetConf) = 0
        THEN call.out.result = [label |-> str_uncertain, confidence |-> 500]
        ELSE Nearest3(call.out.result.confidence, sum(DetConf), ConfDen * Len(DetConf))

\* a person, a helmet and another category with different confidences
MeanConfidenceWitness ==
    /\ Predicted /\ call.out.path = "yolo"
    /\ Len(DetConf) = 3
    /\ DetConf = <<3, ConfDen, ConfDen>>
    /\ IsPersonLabel(call.out.classes_raw[1])
    /\ IsHelmetLabel(call.out.classes_raw[2])
    /\ call.out.classes_raw[3] = <<"c", "a", "r">>
    /\ call.out.result.confidence = 729

\* C5: with n the big-endian 16-bit integer of the first two digest bytes and
\* score = n / 65535, the stub returns helmet with confidence score when
\* score > 0.7, no_helmet with 1 - score when score < 0.3, uncertain with 0.5
\* otherwise, rounded to 3 decimal places; exactly one case applies.
StubThresholds ==
    call.kind = "stub" =>
        LET n == call.digest[1] * 256 + call.digest[2]
            v == call.result
            high == 10 * n > 7 * UInt16Max
            low == 10 * n < 3 * UInt16Max
            middle == 3 * UInt16Max <= 10 * n /\ 10 * n <= 7 * UInt16Max
        IN  /\ n \in 0..UInt16Max
            /\ high => v.label = str_helmet /\ Nearest3(v.confidence, n, UInt16Max)
            /\ low => v.label = str_no_helmet
                      /\ Nearest3(v.confidence, UInt16Max - n, UInt16Max)
            /\ middle => v = [label |-> str_uncertain, confidence |-> 500]
            /\ (high /\ ~low /\ ~middle) \/ (~high /\ low /\ ~middle)
                   \/ (~high /\ ~low /\ middle)

\* n = 45875 = 0xB333, the smallest n with score > 0.7
StubThresholdsWitness ==
    /\ call.kind = "stub"
    /\ call.digest = <<179, 51>>
    /\ call.result = [label |-> str_helmet, confidence |-> 700]

\* the Verdicts of _predict_stub on Inputs, as Python computes them
StubFixture(image_bytes) ==
    CASE image_bytes = EmptyBytes -> [label |-> str_helmet, confidence |-> 852]
      [] image_bytes = JunkA -> [label |-> str_no_helmet, confidence |-> 700]
      [] image_bytes = JunkB -> [label |-> str_uncertain, confidence |-> 500]
      [] image_bytes = JunkC -> [label |-> str_helmet, confidence |-> 700]
      [] image_bytes = PpmImage -> [label |-> str_helmet, confidence |-> 771]

\* C6: _predict_stub is a function of the bytes alone: whatever the service,
\* its seed, device and handle, and whatever was called before, the stub
\* returns for given bytes the Verdict it returned for them the first time,
\* which is the one Python computes for them.
StubPure ==
    (Predicted /\ call.out.path \in {"stub", "fallback"}) =>
        /\ first_stub.kind = "stub"
        /\ first_stub.image_bytes = call.image_bytes => first_stub.result = call.out.result
        /\ call.out.result = StubFixture(call.image_bytes)

\* the same bytes answered by the stub in a service of another seed, with a
\* handle where the first had none, after a call the detector answered
StubPureWitness ==
    /\ Predicted /\ call.out.path = "fallback"
    /\ first_stub.kind = "stub"
    /\ first_stub.image_bytes = call.image_bytes
    /\ first_stub.rng_seed # rng_seed
    /\ ~first_stub.had_model /\ HasModel
    /\ first_stub.result = call.out.result

\* C7: whenever the load raises, construction completes with the handle
\* absent, and every later predict returns the stub's Verdict for its input.
LoadFailureLeavesNoHandle ==
    load_env # "ok" =>
        /\ ~init_raised
        /\ model = None
        /\ Predicted => call.out.result = _predict_stub(call.image_bytes)

\* C8: predict leaves the handle and the class names as construction set them,
\* calls a present handle exactly once when the image decodes (no retry) and an
\* absent one never, whatever the previous call did.
HandleFixed ==
    [][call'.kind = "predict" =>
          /\ model' = model
          /\ class_names' = class_names
          /\ call'.out.invoked = IF Invokes(model, call'.image_bytes) THEN 1 ELSE 0]_vars

\* the detector answers the call that follows a failed inference
HandleFixedWitness ==
    /\ Predicted /\ HasModel
    /\ prev_failed
    /\ call.out.invoked = 1
    /\ call.out.path = "yolo"

\* C9: a class index outside the name table (too large, negative, a missing
\* key) gets the stringified index as its label, and no class index makes the
\* model path fail over to the stub.
UnknownIndexIsStringified ==
    (Detected /\ HasModel /\ image_open(call.image_bytes)) =>
        /\ call.out.path = "yolo"
        /\ \A i \in 1..Len(DetCls) :
               ~InTable(DetNames, DetCls[i]) => call.out.classes_raw[i] = str_int(DetCls[i])

\* C10: a label that lowercased is head or person counts as a person,
\* otherwise one that lowercased contains helmet counts as a helmet, any
\* other as neither: a detection adds to at most one of the two counts.
NormalizedCounts ==
    (Predicted /\ call.out.path = "yolo") =>
        LET raw == call.out.classes_raw
            persons == {i \in 1..Len(raw) : lower(raw[i]) \in {str_head, str_person}}
            helmets == {i \in 1..Len(raw) :
                           /\ lower(raw[i]) \notin {str_head, str_person}
                           /\ contains(lower(raw[i]), str_helmet)}
        IN  /\ call.out.person_count = Cardinality(persons)
            /\ call.out.helmet_count = Cardinality(helmets)
            /\ persons \cap helmets = {}
            /\ call.out.person_count + call.out.helmet_count <= Len(raw)

\* HEAD is a person, without-helmet a helmet, the stringified index 4 neither
NormalizedCountsWitness ==
    /\ Predicted /\ call.out.path = "yolo"
    /\ call.out.classes_raw = << <<"H", "E", "A", "D">>,
                                 <<"w", "i", "t", "h", "o", "u", "t", "-", "h", "e", "l", "m", "e", "t">>,
                                 <<"4">> >>
    /\ call.out.person_count = 1
    /\ call.out.helmet_count = 1

====
